---- MODULE Spec2Model ----
(***************************************************************************)
(* Model of the mock HTTP output server (server.js): the chaos behavior    *)
(* record, the bounded request log, the control endpoints and the upload   *)
(* handler with its timer-based delay.                                     *)
(*                                                                         *)
(* Node runs every handler to its next await in one turn, so each action   *)
(* below is one such turn: a control endpoint, the part of handle() up to  *)
(* `await delay(ms)`, and the part of handle() after the timer fired.      *)
(***************************************************************************)
EXTENDS Integers, Sequences, FiniteSets, TLC

\* behavior:    the global chaos record (`let behavior`)
\* receivedLog: the request log, newest first (`const receivedLog`)
\* uploads:     one record per invocation of handle(), in order of arrival: its
\*              request, where it stands (pc: "waiting" at the await, "done" once
\*              answered, "hung" once returned without answering), the ms of its
\*              timer and what is left of it, the responses written to its res;
\*              and, kept for the properties only, the outcome the behavior at
\*              its start would have given (atStart), the entries it recorded
\*              and its rank among the handlers that reached the recording step
\* recorded:    history: the entries recorded since the last clear, oldest first
\* reply:       the response to the last control request
VARIABLES behavior, receivedLog, uploads, recorded, reply, config, uploadRoute, routes

vars == <<behavior, receivedLog, uploads, recorded, reply, config, uploadRoute, routes>>

\* what is written at start-up only: config.json, the route read from it, the routes bound
startup == <<config, uploadRoute, routes>>

(***************************************************************************)
(* Bounds of the model.                                                    *)
(***************************************************************************)
\* upload requests per behaviour of Spec
MaxUploads == 2
\* largest delayMs a set payload asks for
MaxDelay == 2
\* uploads recorded beyond MAX_LOG in LogSpec
LogExtra == 5
\* upload requests per behaviour of SeqSpec
SeqUploads == 1

\* uploads taken while every endpoint of the API is exercised
ApiUploads == 1

\* uploads taken on top of a log that is one entry short of full
TurnUploads == 2

(***************************************************************************)
(* JavaScript values as they arrive in a JSON body or on a request.        *)
(***************************************************************************)
Undefined == [t |-> "undefined"]
Null == [t |-> "null"]
NaN == [t |-> "nan"]
Num(n) == [t |-> "number", v |-> n]
Str(s) == [t |-> "string", v |-> s]

\* `x != null`
NotNullish(x) == x.t \notin {"undefined", "null"}

\* truthiness of a value, as in `if (x)` and `x || y`
Truthy(x) ==
  CASE x.t = "number" -> x.v # 0
    [] x.t = "string" -> x.v # ""
    [] OTHER -> FALSE

\* Number(x), for the strings the model feeds in
Number(x) ==
  CASE x.t = "number" -> x
    [] x.t = "null" -> Num(0)
    [] x.t = "string" ->
         CASE x.v = "" -> Num(0)
           [] x.v = "503" -> Num(503)
           [] x.v = "1" -> Num(1)
           [] OTHER -> NaN
    [] OTHER -> NaN

Digits == <<"0", "1", "2", "3", "4", "5", "6", "7", "8", "9">>

RECURSIVE NatText(_)
NatText(n) == IF n < 10 THEN Digits[n + 1] ELSE NatText(n \div 10) \o Digits[(n % 10) + 1]

\* String(x) and `${x}`
String(x) ==
  CASE x.t = "string" -> x.v
    [] x.t = "number" -> IF x.v < 0 THEN "-" \o NatText(-x.v) ELSE NatText(x.v)
    [] x.t = "nan" -> "NaN"
    [] x.t = "null" -> "null"
    [] OTHER -> "undefined"

\* mutant: the lower bound of Math.max is dropped
MaxUnclamped(a, b) == b

Max(a, b) == IF a >= b THEN a ELSE b

(***************************************************************************)
(* Behavior (chaos) state.                                                 *)
(***************************************************************************)
DEFAULT_BEHAVIOR == [mode |-> "normal", errorCode |-> 500, errorMessage |-> "", delayMs |-> 0]

MAX_LOG == 200

ERROR_MESSAGES ==
  [c \in {400, 401, 403, 404, 408, 429, 500, 502, 503, 504} |->
     CASE c = 400 -> "Bad Request"
       [] c = 401 -> "Unauthorized"
       [] c = 403 -> "Forbidden"
       [] c = 404 -> "Not Found"
       [] c = 408 -> "Request Timeout"
       [] c = 429 -> "Too Many Requests"
       [] c = 500 -> "Internal Server Error"
       [] c = 502 -> "Bad Gateway"
       [] c = 503 -> "Service Unavailable"
       [] c = 504 -> "Gateway Timeout"]

(***************************************************************************)
(* POST /api/behavior                                                      *)
(***************************************************************************)
\* mutant: the mode is stored without validation
ModeNeverRejected(b) == FALSE

\* the guard of the 400: `b.mode && ![...].includes(b.mode)`
ModeRejected(b) ==
  Truthy(b.mode) /\ ~(b.mode.t = "string" /\ b.mode.v \in {"normal", "error", "timeout"})

\* mutant: the payload replaces the whole record, absent fields fall back to the defaults
ApplyReplacing(beh, b) ==
  [mode |-> IF Truthy(b.mode) THEN b.mode.v ELSE DEFAULT_BEHAVIOR.mode,
   errorCode |->
     IF NotNullish(b.errorCode)
       THEN (IF Truthy(Number(b.errorCode)) THEN Number(b.errorCode).v ELSE 500)
       ELSE DEFAULT_BEHAVIOR.errorCode,
   errorMessage |->
     IF NotNullish(b.errorMessage) THEN String(b.errorMessage) ELSE DEFAULT_BEHAVIOR.errorMessage,
   delayMs |->
     IF NotNullish(b.delayMs)
       THEN Max(0, IF Truthy(Number(b.delayMs)) THEN Number(b.delayMs).v ELSE 0)
       ELSE DEFAULT_BEHAVIOR.delayMs]

\* mutant: an errorCode that is not a number is ignored instead of becoming 500
ApplyKeepingCode(beh, b) ==
  [mode |-> IF Truthy(b.mode) THEN b.mode.v ELSE beh.mode,
   errorCode |->
     IF NotNullish(b.errorCode) /\ Truthy(Number(b.errorCode))
       THEN Number(b.errorCode).v
       ELSE beh.errorCode,
   errorMessage |->
     IF NotNullish(b.errorMessage) THEN String(b.errorMessage) ELSE beh.errorMessage,
   delayMs |->
     IF NotNullish(b.delayMs)
       THEN Max(0, IF Truthy(Number(b.delayMs)) THEN Number(b.delayMs).v ELSE 0)
       ELSE beh.delayMs]

\* the four conditional assignments
ApplyBehavior(beh, b) ==
  [mode |-> IF Truthy(b.mode) THEN b.mode.v ELSE beh.mode,
   errorCode |->
     IF NotNullish(b.errorCode)
       THEN (IF Truthy(Number(b.errorCode)) THEN Number(b.errorCode).v ELSE 500)
       ELSE beh.errorCode,
   errorMessage |->
     IF NotNullish(b.errorMessage) THEN String(b.errorMessage) ELSE beh.errorMessage,
   delayMs |->
     IF NotNullish(b.delayMs)
       THEN Max(0, IF Truthy(Number(b.delayMs)) THEN Number(b.delayMs).v ELSE 0)
       ELSE beh.delayMs]

\* mutant: the entries refer to the live behavior object, so a set relabels them
SetBehaviorRelabelling(b) ==
  /\ IF ModeRejected(b)
       THEN /\ reply' = [status |-> 400,
                         body |-> [error |-> "mode must be normal, error, or timeout"]]
            /\ UNCHANGED <<behavior, receivedLog>>
       ELSE /\ behavior' = ApplyBehavior(behavior, b)
            /\ reply' = [status |-> 200, body |-> behavior']
            /\ receivedLog' = [k \in DOMAIN receivedLog |->
                                 [receivedLog[k] EXCEPT !.chaosMode = behavior'.mode]]
  /\ UNCHANGED <<uploads, recorded>>
  /\ UNCHANGED startup

\* mutant: the handler yields between its assignments, and the other handlers
\* run on the fields it has written so far
SetBehaviorFieldByField(b) ==
  /\ IF ModeRejected(b)
       THEN /\ reply' = [status |-> 400,
                         body |-> [error |-> "mode must be normal, error, or timeout"]]
            /\ UNCHANGED behavior
       ELSE /\ behavior' \in
                 {ApplyBehavior(behavior, [mode |-> b.mode, errorCode |-> Undefined,
                                           errorMessage |-> Undefined, delayMs |-> Undefined]),
                  ApplyBehavior(behavior, [mode |-> b.mode, errorCode |-> b.errorCode,
                                           errorMessage |-> Undefined, delayMs |-> Undefined]),
                  ApplyBehavior(behavior, [mode |-> b.mode, errorCode |-> b.errorCode,
                                           errorMessage |-> b.errorMessage, delayMs |-> Undefined]),
                  ApplyBehavior(behavior, b)}
            /\ reply' = [status |-> 200, body |-> behavior']
  /\ UNCHANGED <<receivedLog, uploads, recorded>>
  /\ UNCHANGED startup

SetBehavior(b) ==
  /\ IF ModeRejected(b)
       THEN /\ reply' = [status |-> 400,
                         body |-> [error |-> "mode must be normal, error, or timeout"]]
            /\ UNCHANGED behavior
       ELSE /\ behavior' = ApplyBehavior(behavior, b)
            /\ reply' = [status |-> 200, body |-> behavior']
  /\ UNCHANGED <<receivedLog, uploads, recorded>>
  /\ UNCHANGED startup

(***************************************************************************)
(* POST /api/behavior/reset                                                *)
(***************************************************************************)
\* mutant: reset puts the mode back to normal and keeps the other fields
ResetModeOnly ==
  /\ behavior' = [behavior EXCEPT !.mode = "normal"]
  /\ reply' = [status |-> 200, body |-> behavior']
  /\ UNCHANGED <<receivedLog, uploads, recorded>>
  /\ UNCHANGED startup

ResetBehavior ==
  /\ behavior' = DEFAULT_BEHAVIOR
  /\ reply' = [status |-> 200, body |-> behavior']
  /\ UNCHANGED <<receivedLog, uploads, recorded>>
  /\ UNCHANGED startup

(***************************************************************************)
(* POST /api/inbox/clear                                                   *)
(***************************************************************************)
\* mutant: clear empties a copy of the log (slice) and leaves the log itself alone
ClearingACopy ==
  /\ receivedLog' = receivedLog
  /\ recorded' = recorded
  /\ reply' = [status |-> 200, body |-> [ok |-> TRUE]]
  /\ UNCHANGED <<behavior, uploads>>
  /\ UNCHANGED startup

ClearInbox ==
  /\ receivedLog' = <<>>
  /\ recorded' = <<>>
  /\ reply' = [status |-> 200, body |-> [ok |-> TRUE]]
  /\ UNCHANGED <<behavior, uploads>>
  /\ UNCHANGED startup

(***************************************************************************)
(* Start-up: loadConfig() and the registration of the upload routes.       *)
(* The strings of the configuration are sequences of characters, so that   *)
(* trim, startsWith and the change of case are computed.                   *)
(***************************************************************************)
Text(s) == [t |-> "text", v |-> s]

Arr(a) == [t |-> "array", v |-> a]

\* the file is not there (readFileSync throws), is not JSON (JSON.parse throws),
\* or parses to the value v
ConfigMissing == [t |-> "missing"]
ConfigMalformed == [t |-> "malformed"]
Json(v) == [t |-> "json", v |-> v]

Obj(upload) == [t |-> "object", upload |-> upload]
UploadObj(method, path, paths) == [t |-> "object", method |-> method, path |-> path, paths |-> paths]

\* x.f, undefined on a value that is not an object
Prop(x, f) == IF x.t = "object" THEN x[f] ELSE Undefined

\* truthiness of a configuration value
TruthyJ(x) ==
  CASE x.t \in {"undefined", "null"} -> FALSE
    [] x.t = "text" -> x.v # <<>>
    [] x.t = "number" -> x.v # 0
    [] OTHER -> TRUE

RECURSIVE DigitChars(_)
DigitChars(n) == IF n < 10 THEN <<Digits[n + 1]>> ELSE Append(DigitChars(n \div 10), Digits[(n % 10) + 1])

\* x.toString() for a string or a number
ToText(x) == IF x.t = "text" THEN x.v ELSE DigitChars(x.v)

RECURSIVE TrimStart(_)
TrimStart(s) == IF s # <<>> /\ Head(s) = " " THEN TrimStart(Tail(s)) ELSE s

RECURSIVE TrimEnd(_)
TrimEnd(s) == IF s # <<>> /\ s[Len(s)] = " " THEN TrimEnd(SubSeq(s, 1, Len(s) - 1)) ELSE s

Trim(s) == TrimEnd(TrimStart(s))

StartsWithSlash(s) == s # <<>> /\ s[1] = "/"

LowerCase == <<"a", "b", "c", "d", "e", "f", "g", "h", "i", "j", "k", "l", "m",
               "n", "o", "p", "q", "r", "s", "t", "u", "v", "w", "x", "y", "z">>
UpperCase == <<"A", "B", "C", "D", "E", "F", "G", "H", "I", "J", "K", "L", "M",
               "N", "O", "P", "Q", "R", "S", "T", "U", "V", "W", "X", "Y", "Z">>

Recase(s, from, to) ==
  [i \in DOMAIN s |->
     IF \E k \in DOMAIN from : from[k] = s[i]
       THEN to[CHOOSE k \in DOMAIN from : from[k] = s[i]]
       ELSE s[i]]

toUpperCase(s) == Recase(s, LowerCase, UpperCase)
toLowerCase(s) == Recase(s, UpperCase, LowerCase)

POST == <<"P", "O", "S", "T">>
SlashUpload == <<"/", "u", "p", "l", "o", "a", "d">>

DEFAULT_UPLOAD == UploadObj(Text(POST), Text(SlashUpload), Undefined)

\* `p.trim().startsWith('/') ? p.trim() : '/' + p.trim()`, for a trimmed s
WithSlash(s) == IF StartsWithSlash(s) THEN s ELSE <<"/">> \o s

\* the map and the filter over an array of paths
RECURSIVE UsablePaths(_)
UsablePaths(a) ==
  IF a = <<>> THEN <<>>
  ELSE IF Head(a).t = "text" /\ Trim(Head(a).v) # <<>>
    THEN <<WithSlash(Trim(Head(a).v))>> \o UsablePaths(Tail(a))
    ELSE UsablePaths(Tail(a))

\* the branch for a path that is not an array
SinglePath(p) ==
  IF TruthyJ(p) /\ StartsWithSlash(Trim(ToText(p)))
    THEN Trim(ToText(p))
    ELSE <<"/">> \o (IF NotNullish(p) /\ Trim(ToText(p)) # <<>>
                       THEN Trim(ToText(p))
                       ELSE Tail(SlashUpload))

\* mutant: the list of paths is read from `upload.paths` when it is there
loadConfigReadingPaths(c) ==
  IF c.t # "json" THEN [method |-> POST, paths |-> <<SlashUpload>>]
  ELSE LET given == Prop(c.v, "upload")
           upload == IF NotNullish(given) THEN given ELSE DEFAULT_UPLOAD
           m == Prop(upload, "method")
           method == toUpperCase(ToText(IF TruthyJ(m) THEN m ELSE Text(POST)))
           pathOrPaths == IF NotNullish(Prop(upload, "paths"))
                            THEN Prop(upload, "paths") ELSE Prop(upload, "path")
           paths == IF pathOrPaths.t = "array"
                      THEN UsablePaths(pathOrPaths.v)
                      ELSE <<SinglePath(pathOrPaths)>>
       IN [method |-> method, paths |-> IF paths # <<>> THEN paths ELSE <<SlashUpload>>]

loadConfig(c) ==
  IF c.t # "json" THEN [method |-> POST, paths |-> <<SlashUpload>>]
  ELSE LET given == Prop(c.v, "upload")
           upload == IF NotNullish(given) THEN given ELSE DEFAULT_UPLOAD
           m == Prop(upload, "method")
           method == toUpperCase(ToText(IF TruthyJ(m) THEN m ELSE Text(POST)))
           pathOrPaths == Prop(upload, "path")
           paths == IF pathOrPaths.t = "array"
                      THEN UsablePaths(pathOrPaths.v)
                      ELSE <<SinglePath(pathOrPaths)>>
       IN [method |-> method, paths |-> IF paths # <<>> THEN paths ELSE <<SlashUpload>>]

\* names under which the application object has a function: the HTTP verbs the
\* model uses, and `use`
AppFunctions == {<<"p", "o", "s", "t">>, <<"p", "u", "t">>, <<"g", "e", "t">>, <<"u", "s", "e">>}

\* `typeof app[uploadMethod] !== 'function'`
Unregistrable(method) == toLowerCase(method) \notin AppFunctions

\* uploadRoute once the registration code has run over it
Registered(r) == IF Unregistrable(r.method) THEN [r EXCEPT !.method = POST] ELSE r

\* the app[uploadMethod](p, ...) calls made for it
Bound(r) ==
  [k \in DOMAIN r.paths |-> [fn |-> toLowerCase(Registered(r).method), path |-> r.paths[k]]]

\* `const uploadRoute = loadConfig()`
LoadConfig ==
  /\ uploadRoute = Undefined
  /\ uploadRoute' = loadConfig(config)
  /\ UNCHANGED <<behavior, receivedLog, uploads, recorded, reply, config, routes>>

\* the registration of the upload routes
RegisterRoutes ==
  /\ uploadRoute # Undefined
  /\ routes = <<>>
  /\ uploadRoute' = Registered(uploadRoute)
  /\ routes' = Bound(uploadRoute)
  /\ UNCHANGED <<behavior, receivedLog, uploads, recorded, reply, config>>

(***************************************************************************)
(* GET /api/behavior, GET /api/inbox, GET /api/routes, ping and health.    *)
(***************************************************************************)
GetBehavior ==
  /\ reply' = [status |-> 200, body |-> behavior]
  /\ UNCHANGED <<behavior, receivedLog, uploads, recorded>>
  /\ UNCHANGED startup

\* mutant: reading the inbox empties it
GetInboxDraining ==
  /\ reply' = [status |-> 200, body |-> [array |-> receivedLog]]
  /\ receivedLog' = <<>>
  /\ UNCHANGED <<behavior, uploads, recorded>>
  /\ UNCHANGED startup

\* the body is the JSON array of the entries
GetInbox ==
  /\ reply' = [status |-> 200, body |-> [array |-> receivedLog]]
  /\ UNCHANGED <<behavior, receivedLog, uploads, recorded>>
  /\ UNCHANGED startup

\* served once the routes are bound
GetRoutes ==
  /\ routes # <<>>
  /\ reply' = [status |-> 200,
               body |-> [upload |-> [method |-> uploadRoute.method, paths |-> uploadRoute.paths]]]
  /\ UNCHANGED <<behavior, receivedLog, uploads, recorded>>
  /\ UNCHANGED startup

\* mutant: ping goes through the chaos modes and is left unanswered in timeout mode
PingThroughChaos ==
  /\ behavior.mode # "timeout"
  /\ reply' = [status |-> IF behavior.mode = "error" THEN behavior.errorCode ELSE 200,
               body |-> [status |-> "ok", message |-> "pong"]]
  /\ UNCHANGED <<behavior, receivedLog, uploads, recorded>>
  /\ UNCHANGED startup

Ping ==
  /\ reply' = [status |-> 200, body |-> [status |-> "ok", message |-> "pong"]]
  /\ UNCHANGED <<behavior, receivedLog, uploads, recorded>>
  /\ UNCHANGED startup

Health ==
  /\ reply' = [status |-> 200, body |-> [status |-> "ok"]]
  /\ UNCHANGED <<behavior, receivedLog, uploads, recorded>>
  /\ UNCHANGED startup

(***************************************************************************)
(* Request log (newest first).                                             *)
(***************************************************************************)
\* `file?.originalname || file?.name || null`; multer files carry no `name`
FileName(file) ==
  IF file.t = "file" /\ file.originalname # "" THEN Str(file.originalname) ELSE Null

\* `file?.size ?? null`
FileSize(file) == IF file.t = "file" THEN Num(file.size) ELSE Null

\* the entry logReceived builds; id stands for the generated unique id
LogEntry(beh, id, req, responseStatus, note) ==
  [id |-> id,
   method |-> req.method,
   path |-> req.path,
   fileName |-> FileName(req.file),
   fileSize |-> FileSize(req.file),
   hasAuth |-> Truthy(req.authorization),
   responseStatus |-> responseStatus,
   note |-> IF Truthy(note) THEN note ELSE Null,
   chaosMode |-> beh.mode]

\* mutant: push instead of unshift
Push(log, e) == log \o <<e>>

\* receivedLog.unshift(e)
Unshift(log, e) == <<e>> \o log

\* mutant: shift instead of pop, dropping the newest entry
EvictNewest(log) == IF Len(log) > MAX_LOG THEN Tail(log) ELSE log

\* `if (receivedLog.length > MAX_LOG) receivedLog.pop()`
Evict(log) == IF Len(log) > MAX_LOG THEN SubSeq(log, 1, Len(log) - 1) ELSE log

logReceived(log, beh, id, req, responseStatus, note) ==
  Evict(Unshift(log, LogEntry(beh, id, req, responseStatus, note)))

(***************************************************************************)
(* Upload handler.                                                         *)
(***************************************************************************)
\* `behavior.errorCode || 500`
ErrorCode(beh) == IF beh.errorCode # 0 THEN beh.errorCode ELSE 500

\* mutant: the phrase table consulted before the explicit message
ErrorMessageTableFirst(beh) ==
  IF ErrorCode(beh) \in DOMAIN ERROR_MESSAGES THEN ERROR_MESSAGES[ErrorCode(beh)]
  ELSE IF beh.errorMessage # "" THEN beh.errorMessage
  ELSE "Error " \o String(Num(ErrorCode(beh)))

\* `behavior.errorMessage || ERROR_MESSAGES[code] || `Error ${code}``
ErrorMessage(beh) ==
  IF beh.errorMessage # "" THEN beh.errorMessage
  ELSE IF ErrorCode(beh) \in DOMAIN ERROR_MESSAGES THEN ERROR_MESSAGES[ErrorCode(beh)]
  ELSE "Error " \o String(Num(ErrorCode(beh)))

NormalCall == [responseStatus |-> 200, note |-> Undefined]

NormalResponse(req) ==
  [status |-> 200,
   body |-> [ok |-> TRUE, message |-> "PDF received", filename |-> FileName(req.file)]]

\* mutant: the Timeout branch falls through to the Normal one (no `return`)
BranchAnsweringTimeout(beh, req) ==
  IF beh.mode = "timeout"
    THEN [branch |-> "timeout",
          logs |-> <<[responseStatus |-> 0, note |-> Str("timeout (no response sent)")]>>,
          sent |-> <<NormalResponse(req)>>]
  ELSE IF beh.mode = "error"
    THEN [branch |-> "error",
          logs |-> <<[responseStatus |-> ErrorCode(beh),
                      note |-> Str("chaos: " \o ErrorMessage(beh))]>>,
          sent |-> <<[status |-> ErrorCode(beh), body |-> [error |-> ErrorMessage(beh)]]>>]
  ELSE [branch |-> "normal", logs |-> <<NormalCall>>, sent |-> <<NormalResponse(req)>>]

\* mutant: the Error branch does not return and runs the Normal one as well
BranchErrorFallsThrough(beh, req) ==
  IF beh.mode = "timeout"
    THEN [branch |-> "timeout",
          logs |-> <<[responseStatus |-> 0, note |-> Str("timeout (no response sent)")]>>,
          sent |-> <<>>]
  ELSE IF beh.mode = "error"
    THEN [branch |-> "error",
          logs |-> <<[responseStatus |-> ErrorCode(beh),
                      note |-> Str("chaos: " \o ErrorMessage(beh))], NormalCall>>,
          sent |-> <<[status |-> ErrorCode(beh), body |-> [error |-> ErrorMessage(beh)]],
                     NormalResponse(req)>>]
  ELSE [branch |-> "normal", logs |-> <<NormalCall>>, sent |-> <<NormalResponse(req)>>]

\* mutant: the Error branch sends its body without `res.status(code)`
BranchForgettingStatus(beh, req) ==
  IF beh.mode = "timeout"
    THEN [branch |-> "timeout",
          logs |-> <<[responseStatus |-> 0, note |-> Str("timeout (no response sent)")]>>,
          sent |-> <<>>]
  ELSE IF beh.mode = "error"
    THEN [branch |-> "error",
          logs |-> <<[responseStatus |-> ErrorCode(beh),
                      note |-> Str("chaos: " \o ErrorMessage(beh))]>>,
          sent |-> <<[status |-> 200, body |-> [error |-> ErrorMessage(beh)]]>>]
  ELSE [branch |-> "normal", logs |-> <<NormalCall>>, sent |-> <<NormalResponse(req)>>]

\* mutant: a request without a credential is turned away with 401
BranchCheckingCredential(beh, req) ==
  IF ~Truthy(req.authorization)
    THEN [branch |-> "error",
          logs |-> <<[responseStatus |-> 401, note |-> Str("chaos: Unauthorized")]>>,
          sent |-> <<[status |-> 401, body |-> [error |-> "Unauthorized"]]>>]
  ELSE IF beh.mode = "timeout"
    THEN [branch |-> "timeout",
          logs |-> <<[responseStatus |-> 0, note |-> Str("timeout (no response sent)")]>>,
          sent |-> <<>>]
  ELSE IF beh.mode = "error"
    THEN [branch |-> "error",
          logs |-> <<[responseStatus |-> ErrorCode(beh),
                      note |-> Str("chaos: " \o ErrorMessage(beh))]>>,
          sent |-> <<[status |-> ErrorCode(beh), body |-> [error |-> ErrorMessage(beh)]]>>]
  ELSE [branch |-> "normal", logs |-> <<NormalCall>>, sent |-> <<NormalResponse(req)>>]

\* The part of handle() after the delay, for the behavior beh it reads in that
\* turn: the logReceived calls it makes and the responses it sends, in order.
Branch(beh, req) ==
  IF beh.mode = "timeout"
    THEN [branch |-> "timeout",
          logs |-> <<[responseStatus |-> 0, note |-> Str("timeout (no response sent)")]>>,
          sent |-> <<>>]
  ELSE IF beh.mode = "error"
    THEN [branch |-> "error",
          logs |-> <<[responseStatus |-> ErrorCode(beh),
                      note |-> Str("chaos: " \o ErrorMessage(beh))]>>,
          sent |-> <<[status |-> ErrorCode(beh), body |-> [error |-> ErrorMessage(beh)]]>>]
  ELSE [branch |-> "normal", logs |-> <<NormalCall>>, sent |-> <<NormalResponse(req)>>]

\* `if (behavior.delayMs > 0)`
MustWait(beh) == beh.delayMs > 0

\* mutant: the timer is measured against the delayMs current now, not the one captured
TimerDueByCurrentDelay(u) == u.ms - u.remaining >= behavior.delayMs

\* mutant: the timer resolves without honouring ms
TimerDueAtOnce(u) == TRUE

\* setTimeout(resolve, ms) resolves no sooner than ms after it was set
TimerDue(u) == u.remaining = 0

\* mutant: handle() works from a snapshot of the behavior taken before the await
OutcomeAtStart(u) == u.atStart

\* handle() reads the global behavior when it gets to the mode branch
Outcome(u) == Branch(behavior, u.req)

\* the log after the logReceived calls of one handler turn
RECURSIVE LogCalls(_, _, _, _, _)
LogCalls(log, beh, id, req, calls) ==
  IF calls = <<>> THEN log
  ELSE LogCalls(logReceived(log, beh, id, req, Head(calls).responseStatus, Head(calls).note),
                beh, id, req, Tail(calls))

\* the entries those calls create, oldest first
EntriesOf(u, calls) ==
  [k \in 1..Len(calls) |->
     LogEntry(behavior, u.id, u.req, calls[k].responseStatus, calls[k].note)]

\* number of uploads whose handler has reached its recording step
Reached == Cardinality({j \in DOMAIN uploads : uploads[j].pc # "waiting"})

\* upload u once its mode branch has run
Finished(u) ==
  LET o == Outcome(u) IN
  [u EXCEPT !.pc = IF o.sent = <<>> THEN "hung" ELSE "done",
            !.branch = o.branch,
            !.order = Reached + 1,
            !.entries = @ \o EntriesOf(u, o.logs),
            !.responses = @ \o o.sent]

\* what the mode branch of upload u does to the log in the current turn
RunBranch(u) ==
  /\ receivedLog' = LogCalls(receivedLog, behavior, u.id, u.req, Outcome(u).logs)
  /\ recorded' = recorded \o EntriesOf(u, Outcome(u).logs)

\* a request reaches handle(): the turn up to the await, or the whole handler
\* when there is no delay to wait out
Upload(req, limit) ==
  /\ Len(uploads) < limit
  /\ LET u == [id |-> Len(uploads) + 1, req |-> req, pc |-> "waiting",
               atStart |-> Branch(behavior, req),
               ms |-> behavior.delayMs, remaining |-> behavior.delayMs,
               branch |-> "none", order |-> 0, entries |-> <<>>, responses |-> <<>>]
     IN IF MustWait(behavior)
          THEN /\ uploads' = Append(uploads, u)
               /\ UNCHANGED <<receivedLog, recorded>>
          ELSE /\ uploads' = Append(uploads, Finished(u))
               /\ RunBranch(u)
  /\ UNCHANGED <<behavior, reply>>
  /\ UNCHANGED startup

\* the timer of upload i fires and handle() runs from the await to its end
Resume(i) ==
  /\ i \in DOMAIN uploads
  /\ uploads[i].pc = "waiting"
  /\ TimerDue(uploads[i])
  /\ uploads' = [uploads EXCEPT ![i] = Finished(uploads[i])]
  /\ RunBranch(uploads[i])
  /\ UNCHANGED <<behavior, reply>>
  /\ UNCHANGED startup

\* one millisecond passes for every pending timer
Tick ==
  /\ \E i \in DOMAIN uploads : uploads[i].pc = "waiting" /\ ~TimerDue(uploads[i])
  /\ uploads' = [i \in DOMAIN uploads |->
                   IF uploads[i].pc = "waiting" /\ uploads[i].remaining > 0
                     THEN [uploads[i] EXCEPT !.remaining = @ - 1]
                     ELSE uploads[i]]
  /\ UNCHANGED <<behavior, receivedLog, recorded, reply>>
  /\ UNCHANGED startup

(***************************************************************************)
(* Inputs.                                                                 *)
(***************************************************************************)
Payload(m, c, e, d) == [mode |-> m, errorCode |-> c, errorMessage |-> e, delayMs |-> d]

\* what the control panel and a test client post while uploads are in flight
ChaosPayloads ==
  {Payload(Str(m), Undefined, Undefined, Undefined) : m \in {"normal", "timeout", "bogus"}}
  \cup {Payload(Str("error"), Num(503), Undefined, Undefined)}
  \cup {Payload(Undefined, Undefined, Undefined, Num(d)) : d \in 0..MaxDelay}

ModeInputs == {Undefined, Str("normal"), Str("error"), Str("timeout"), Str(""), Str("bogus")}
CodeInputs == {Undefined, Num(503), Num(400), Num(418)}
MessageInputs == {Undefined, Str("Custom")}
NoDelayInputs == {Undefined, Num(-5), Num(0), Str("abc")}

\* every combination of mode, errorCode and errorMessage, and the delayMs values
\* that leave no delay to wait out, alone or with an unrecognized mode
Payloads ==
  {Payload(m, c, e, Undefined) : m \in ModeInputs, c \in CodeInputs, e \in MessageInputs}
  \cup {Payload(m, Undefined, Undefined, d) :
          m \in {Undefined, Str("bogus")}, d \in NoDelayInputs \ {Undefined}}

\* every kind of value a field can carry, a positive delayMs included
AllModeInputs == ModeInputs \cup {Null}
AllCodeInputs == CodeInputs \cup {Null, Num(0), Str("503"), Str("abc")}
AllMessageInputs == MessageInputs \cup {Str("")}
AllDelayInputs == NoDelayInputs \cup {Str("1")} \cup {Num(d) : d \in 1..MaxDelay}

\* payloads of one field, as the panel's buttons send them, and payloads of several
AllPayloads ==
  {Payload(m, Undefined, Undefined, Undefined) : m \in AllModeInputs}
    \cup {Payload(Undefined, c, Undefined, Undefined) : c \in AllCodeInputs}
    \cup {Payload(Undefined, Undefined, e, Undefined) : e \in AllMessageInputs}
    \cup {Payload(Undefined, Undefined, Undefined, d) : d \in AllDelayInputs}
    \cup {Payload(m, c, Undefined, d) : m \in {Undefined, Str("error"), Str("bogus")},
                                        c \in {Num(0), Num(418), Str("abc")},
                                        d \in {Num(-5), Str("abc")}}
    \cup {Payload(Str("timeout"), Num(418), Str("Custom"), Num(MaxDelay))}

NoFile == [t |-> "undefined"]
PdfFile == [t |-> "file", originalname |-> "a.pdf", size |-> 3]

Request(file, auth) == [method |-> "POST", path |-> "/upload", file |-> file, authorization |-> auth]

\* without a file, and with a file without and with a credential
Requests ==
  {Request(NoFile, Undefined), Request(PdfFile, Undefined), Request(PdfFile, Str("Basic dG9rZW46"))}

(***************************************************************************)
(* Specifications.                                                         *)
(***************************************************************************)
Init ==
  /\ behavior = DEFAULT_BEHAVIOR
  /\ receivedLog = <<>>
  /\ uploads = <<>>
  /\ recorded = <<>>
  /\ reply = [status |-> 0, body |-> Null]
  /\ config = ConfigMissing
  /\ uploadRoute = Registered(loadConfig(config))
  /\ routes = Bound(loadConfig(config))

\* uploads in flight while the behavior is changed under them
Next ==
  \/ \E b \in ChaosPayloads : SetBehavior(b)
  \/ ResetBehavior
  \/ ClearInbox
  \/ Upload(Request(PdfFile, Undefined), MaxUploads)
  \/ \E i \in 1..MaxUploads : Resume(i)
  \/ Tick

Spec == Init /\ [][Next]_vars

\* timers fire and the event loop runs the callbacks that are due
FairSpec == Spec /\ WF_vars(Tick) /\ \A i \in 1..MaxUploads : WF_vars(Resume(i))

\* no delay configured: every upload is handled in the turn it arrives in
SeqNext ==
  \/ \E b \in Payloads : SetBehavior(b)
  \/ ResetBehavior
  \/ ClearInbox
  \/ \E req \in Requests : Upload(req, SeqUploads)

SeqSpec == Init /\ [][SeqNext]_vars

\* default behavior, enough uploads to overflow the log
LogNext ==
  \/ Upload(Request(PdfFile, Undefined), MAX_LOG + LogExtra)
  \/ ClearInbox

LogSpec == Init /\ [][LogNext]_vars

\* the same upload sent without, with an empty and with a filled Authorization header
ApiRequests == {Request(PdfFile, a) : a \in {Undefined, Str(""), Str("Basic dG9rZW46")}}

\* every endpoint of the server
ApiNext ==
  \/ \E b \in ChaosPayloads : SetBehavior(b)
  \/ ResetBehavior
  \/ ClearInbox
  \/ GetBehavior
  \/ GetInbox
  \/ GetRoutes
  \/ Ping
  \/ Health
  \/ \E req \in ApiRequests : Upload(req, ApiUploads)
  \/ \E i \in 1..ApiUploads : Resume(i)
  \/ Tick

ApiSpec == Init /\ [][ApiNext]_vars

\* the Behavior Store alone: every payload, no upload
SetNext ==
  \/ \E b \in AllPayloads : SetBehavior(b)
  \/ ResetBehavior
  \/ GetBehavior

SetSpec == Init /\ [][SetNext]_vars

\* the uploads behind a log one entry short of full: MAX_LOG - 1 requests, each
\* handled in full under the default behavior
EarlierUploads ==
  [i \in 1..(MAX_LOG - 1) |->
     LET req == Request(PdfFile, Undefined)
         o == Branch(DEFAULT_BEHAVIOR, req)
     IN [id |-> i, req |-> req, pc |-> "done", atStart |-> o, ms |-> 0, remaining |-> 0,
         branch |-> o.branch, order |-> i,
         entries |-> <<LogEntry(DEFAULT_BEHAVIOR, i, req, o.logs[1].responseStatus, o.logs[1].note)>>,
         responses |-> o.sent]]

\* the state the server is in after those uploads
NearlyFullInit ==
  /\ behavior = DEFAULT_BEHAVIOR
  /\ uploads = EarlierUploads
  /\ recorded = [i \in 1..(MAX_LOG - 1) |-> EarlierUploads[i].entries[1]]
  /\ receivedLog = [k \in 1..(MAX_LOG - 1) |-> EarlierUploads[MAX_LOG - k].entries[1]]
  /\ reply = [status |-> 0, body |-> Null]
  /\ config = ConfigMissing
  /\ uploadRoute = Registered(loadConfig(config))
  /\ routes = Bound(loadConfig(config))

\* a set of several fields at once, and sets of one field
TurnPayloads ==
  {Payload(Str("error"), Num(503), Str("Custom"), Undefined),
   Payload(Str("normal"), Undefined, Undefined, Undefined),
   Payload(Undefined, Undefined, Undefined, Num(0)),
   Payload(Undefined, Undefined, Undefined, Num(1))}

\* writers and readers of the behavior and of a log that fills up and evicts
TurnNext ==
  \/ \E b \in TurnPayloads : SetBehavior(b)
  \/ ResetBehavior
  \/ GetBehavior
  \/ GetInbox
  \/ Upload(Request(PdfFile, Undefined), MAX_LOG - 1 + TurnUploads)
  \/ \E i \in MAX_LOG..(MAX_LOG - 1 + TurnUploads) : Resume(i)
  \/ Tick

TurnSpec == NearlyFullInit /\ [][TurnNext]_vars

\* method names and paths a config.json can carry
PUT == <<"P", "U", "T">>
FETCH == <<"F", "E", "T", "C", "H">>
SlashPdf == <<"/", "p", "d", "f">>
SlashA == <<"/", "a">>
SlashB == <<"/", "b">>

MethodInputs ==
  {Undefined, Text(<<>>), Text(POST), Text(PUT), Text(toLowerCase(PUT)), Text(FETCH),
   Text(<<"u", "s", "e">>)}

PathInputs ==
  {Undefined, Text(<<>>), Text(<<" ">>), Text(SlashPdf), Text(Tail(SlashPdf)),
   Text(<<" ">> \o SlashPdf \o <<" ">>), Num(7),
   Arr(<<>>), Arr(<<Text(SlashA), Text(Tail(SlashB))>>), Arr(<<Num(7), Text(<<" ">>)>>),
   Arr(<<Text(<<" ", "b", " ">>), Null, Text(SlashA)>>)}

PathsInputs == {Undefined, Arr(<<Text(SlashA), Text(SlashB)>>)}

\* no file, a file that is not JSON, JSON without an upload object, and upload objects
Configs ==
  {ConfigMissing, ConfigMalformed, Json(Null), Json(Num(7)), Json(Obj(Undefined)),
   Json(Obj(Null)), Json(Obj(Text(SlashPdf)))}
    \cup {Json(Obj(UploadObj(m, p, ps))) : m \in MethodInputs, p \in PathInputs, ps \in PathsInputs}

\* the process before server.js has run, for any config.json
ConfigInit ==
  /\ behavior = DEFAULT_BEHAVIOR
  /\ receivedLog = <<>>
  /\ uploads = <<>>
  /\ recorded = <<>>
  /\ reply = [status |-> 0, body |-> Null]
  /\ config \in Configs
  /\ uploadRoute = Undefined
  /\ routes = <<>>

\* start-up, then the routes are read back
ConfigNext ==
  \/ LoadConfig
  \/ RegisterRoutes
  \/ GetRoutes

ConfigSpec == ConfigInit /\ [][ConfigNext]_vars

(***************************************************************************)
(* Properties.                                                             *)
(***************************************************************************)
Modes == {"normal", "error", "timeout"}

Settled(u) == u.pc # "waiting"

\* upload i runs its mode branch in this step
Finishes(i) ==
  /\ i \in DOMAIN uploads'
  /\ Settled(uploads'[i])
  /\ (i \in DOMAIN uploads => ~Settled(uploads[i]))

\* the log entry a branch record announces, for a request handled in mode m
Announced(o, m) ==
  [responseStatus |-> o.logs[1].responseStatus,
   note |-> IF Truthy(o.logs[1].note) THEN o.logs[1].note ELSE Null,
   chaosMode |-> m]

\* the outcome fields of a recorded entry
Seen(e) == [responseStatus |-> e.responseStatus, note |-> e.note, chaosMode |-> e.chaosMode]

\* C1 (as stated): a request that waited out a delay took the branch, was sent
\* the response and recorded the log entry that the Behavior current at the start
\* of its handling determines.
C1_OutcomeFixedAtStart ==
  \A i \in DOMAIN uploads :
    (uploads[i].ms > 0 /\ Settled(uploads[i])) =>
      /\ uploads[i].branch = uploads[i].atStart.branch
      /\ uploads[i].responses = uploads[i].atStart.sent
      /\ Len(uploads[i].entries) = 1
      /\ Seen(uploads[i].entries[1]) = Announced(uploads[i].atStart, uploads[i].atStart.branch)

\* C1 (amended): only the length of the wait is fixed when handling begins; the
\* branch taken, the response sent and the log entry recorded by a request that
\* waited out a delay are those determined by the Behavior current in the turn in
\* which its delay completes.
C1_OutcomeFromBehaviorAfterDelay ==
  [][\A i \in DOMAIN uploads :
       (uploads[i].ms > 0 /\ Finishes(i)) =>
         /\ uploads'[i].ms = uploads[i].ms
         /\ uploads'[i].branch = behavior.mode
         /\ uploads'[i].responses = Branch(behavior, uploads[i].req).sent
         /\ Len(uploads'[i].entries) = 1
         /\ Seen(uploads'[i].entries[1]) =
              Announced(Branch(behavior, uploads[i].req), behavior.mode)
         /\ receivedLog'[1] = uploads'[i].entries[1]]_vars

\* a request that began in one mode and, the mode having been changed while it
\* waited, was handled in another
C1_Witness ==
  \E i \in DOMAIN uploads :
    /\ uploads[i].ms > 0
    /\ Settled(uploads[i])
    /\ uploads[i].branch # uploads[i].atStart.branch

\* C3: Behavior.mode is one of normal, error, timeout in every reachable state.
C3_ModeEnumerated == behavior.mode \in Modes

\* a set was rejected while the mode was not the default, with uploads handled
C3_Witness ==
  /\ reply.status = 400
  /\ behavior.mode = "timeout"
  /\ Len(uploads) > 0
  /\ receivedLog = <<>>

\* C4: a request handled in the Timeout branch has recorded exactly one entry,
\* with responseStatus 0 and the note 'timeout (no response sent)', and has been
\* sent no response, in every state from then on.
C4_TimeoutNeverAnswered ==
  \A i \in DOMAIN uploads :
    uploads[i].branch = "timeout" =>
      /\ uploads[i].pc = "hung"
      /\ uploads[i].responses = <<>>
      /\ Len(uploads[i].entries) = 1
      /\ uploads[i].entries[1].responseStatus = 0
      /\ uploads[i].entries[1].note = Str("timeout (no response sent)")

\* a held request, still unanswered after a reset and a later answered upload
C4_Witness ==
  /\ Len(uploads) = 2
  /\ uploads[1].branch = "timeout"
  /\ uploads[1].responses = <<>>
  /\ behavior = DEFAULT_BEHAVIOR
  /\ uploads[2].pc = "done"

\* C5: no upload is ever logged twice or answered twice; every upload eventually
\* records exactly one entry, and one handled in Normal or Error mode is then
\* sent exactly one response.
C5_LoggedOnceAnsweredOnce ==
  /\ [](\A i \in DOMAIN uploads :
          /\ Len(uploads[i].entries) <= 1
          /\ Len(uploads[i].responses) <= 1
          /\ Settled(uploads[i]) =>
               /\ Len(uploads[i].entries) = 1
               /\ (uploads[i].branch \in {"normal", "error"} => Len(uploads[i].responses) = 1))
  /\ \A i \in 1..MaxUploads :
       (i \in DOMAIN uploads) ~> (i \in DOMAIN uploads /\ Len(uploads[i].entries) = 1)

\* two delayed uploads, one held in Timeout mode and one answered, each logged once
C5_Witness ==
  /\ Len(uploads) = 2
  /\ \A i \in DOMAIN uploads : uploads[i].ms > 0 /\ Len(uploads[i].entries) = 1
  /\ uploads[1].branch = "timeout"
  /\ Len(uploads[2].responses) = 1

\* C7: entries sit in the log in the order in which their handlers reached the
\* recording step, newest first, whatever the order of arrival.
C7_LogInRecordingOrder ==
  \A i, j \in DOMAIN receivedLog :
    i < j => uploads[receivedLog[i].id].order > uploads[receivedLog[j].id].order

\* a request that arrived later sits below one that arrived earlier
C7_Witness ==
  \E i, j \in DOMAIN receivedLog :
    /\ i < j
    /\ receivedLog[i].id < receivedLog[j].id
    /\ uploads[receivedLog[j].id].ms > 0

\* C8: whatever the mode, a request records nothing and is sent nothing before
\* the delay it started with has fully elapsed.
C8_NothingBeforeDelay ==
  \A i \in DOMAIN uploads :
    (uploads[i].entries # <<>> \/ uploads[i].responses # <<>> \/ Settled(uploads[i])) =>
      uploads[i].remaining = 0

\* a Normal upload answered 200 after the longest delay, and a held one
C8_Witness ==
  /\ Len(uploads) = 2
  /\ \E i \in DOMAIN uploads :
       /\ uploads[i].ms = MaxDelay
       /\ uploads[i].responses # <<>>
       /\ uploads[i].responses[1].status = 200
  /\ \E i \in DOMAIN uploads : uploads[i].ms > 0 /\ uploads[i].branch = "timeout"

\* C2 (as stated): a set call whose mode is a string other than normal, error or
\* timeout, the empty string included, is answered 400 with the message 'mode
\* must be normal, error, or timeout' and changes no Behavior field.
C2_InvalidModeRejected ==
  [][\A b \in Payloads :
       (b.mode.t = "string" /\ b.mode.v \notin Modes /\ SetBehavior(b)) =>
         /\ reply'.status = 400
         /\ reply'.body = [error |-> "mode must be normal, error, or timeout"]
         /\ behavior' = behavior]_vars

Min(a, b) == IF a <= b THEN a ELSE b

Reverse(q) == [i \in 1..Len(q) |-> q[Len(q) + 1 - i]]

LastN(q, n) == SubSeq(q, Len(q) - n + 1, Len(q))

\* C6: the log never holds more than 200 entries and is, newest first, the most
\* recent min(n, 200) of the n entries recorded since the last clear.
C6_LogKeepsNewest200 ==
  /\ Len(receivedLog) <= 200
  /\ receivedLog = Reverse(LastN(recorded, Min(Len(recorded), 200)))

\* 205 entries recorded: 200 are left, the 5 oldest gone
C6_Witness ==
  /\ Len(recorded) = 205
  /\ Len(receivedLog) = 200
  /\ receivedLog[1].id = 205
  /\ receivedLog[200].id = 6

\* the file name a request carries, or null
AttachedName(req) == IF req.file.t = "file" THEN Str(req.file.originalname) ELSE Null

\* C9: a response sent for an upload carries the responseStatus of that upload's
\* log entry: 200, no note and the 'PDF received' body in Normal mode; the
\* configured errorCode, the note 'chaos: <message>' and the body {error:
\* <message>} in Error mode.
C9_StatusSentIsStatusLogged ==
  [][\A i \in DOMAIN uploads' :
       Finishes(i) =>
         \A k \in DOMAIN uploads'[i].responses :
           LET r == uploads'[i].responses[k]
               e == receivedLog'[1]
           IN /\ e.id = i
              /\ r.status = e.responseStatus
              /\ behavior.mode # "timeout"
              /\ behavior.mode = "normal" =>
                   /\ r.status = 200
                   /\ e.note = Null
                   /\ r.body = [ok |-> TRUE, message |-> "PDF received",
                                filename |-> AttachedName(uploads'[i].req)]
              /\ behavior.mode = "error" =>
                   /\ r.status = behavior.errorCode
                   /\ DOMAIN r.body = {"error"}
                   /\ e.note = Str("chaos: " \o r.body.error)]_vars

\* an upload with a file answered 418 and logged 418
C9_Witness ==
  \E i \in DOMAIN uploads :
    /\ uploads[i].req.file = PdfFile
    /\ uploads[i].responses = <<[status |-> 418, body |-> [error |-> "Error 418"]]>>
    /\ receivedLog # <<>>
    /\ receivedLog[1].id = i
    /\ receivedLog[1].responseStatus = 418

\* the phrases the claim and the data model give for the codes set in the model
Phrase(code) ==
  CASE code = 400 -> "Bad Request"
    [] code = 500 -> "Internal Server Error"
    [] code = 503 -> "Service Unavailable"
    [] code = 504 -> "Gateway Timeout"
    [] code = 418 -> "Error 418"

\* C10: in Error mode the message in the body and in the note is the explicit
\* errorMessage when set, else the phrase of errorCode, else 'Error <code>'.
C10_MessageResolution ==
  [][\A i \in DOMAIN uploads' :
       (Finishes(i) /\ behavior.mode = "error") =>
         LET msg == IF behavior.errorMessage # "" THEN behavior.errorMessage
                    ELSE Phrase(behavior.errorCode)
         IN /\ uploads'[i].responses =
                 <<[status |-> behavior.errorCode, body |-> [error |-> msg]]>>
            /\ receivedLog'[1].note = Str("chaos: " \o msg)
            /\ (behavior.errorCode = 503 /\ behavior.errorMessage = "") =>
                 uploads'[i].responses =
                   <<[status |-> 503, body |-> [error |-> "Service Unavailable"]]>>
            /\ (behavior.errorCode = 400 /\ behavior.errorMessage = "Custom") =>
                 uploads'[i].responses[1].body = [error |-> "Custom"]]_vars

\* set({mode: error, errorCode: 400, errorMessage: 'Custom'}), then an upload
C10_Witness ==
  \E i \in DOMAIN uploads :
    /\ uploads[i].responses = <<[status |-> 400, body |-> [error |-> "Custom"]]>>
    /\ uploads[i].entries[1].note = Str("chaos: Custom")

\* C11: a reset step, from any reachable state, stores and returns exactly
\* {mode normal, errorCode 500, errorMessage '', delayMs 0} and leaves the
\* request log as it was.
C11_ResetRestoresDefaults ==
  [][ResetBehavior =>
       /\ behavior' = [mode |-> "normal", errorCode |-> 500, errorMessage |-> "", delayMs |-> 0]
       /\ reply' = [status |-> 200, body |-> behavior']
       /\ receivedLog' = receivedLog]_vars

\* the defaults are back (only a reset brings errorCode back to 500 here) while
\* the log still holds an entry recorded under errorCode 503
C11_Witness ==
  /\ behavior = [mode |-> "normal", errorCode |-> 500, errorMessage |-> "", delayMs |-> 0]
  /\ reply = [status |-> 200, body |-> behavior]
  /\ \E k \in DOMAIN receivedLog : receivedLog[k].responseStatus = 503

\* C12: a set call that succeeds stores a valid mode it carries, leaves every
\* field the payload does not carry at its prior value and returns the whole
\* resulting Behavior; a get returns the stored Behavior, so a get after
\* set({mode: m}) returns mode m.
C12_SetAppliesPresentFields ==
  [][/\ \A b \in AllPayloads :
          (SetBehavior(b) /\ reply'.status = 200) =>
            /\ (b.mode.t = "string" /\ b.mode.v \in Modes) => behavior'.mode = b.mode.v
            /\ b.mode = Undefined => behavior'.mode = behavior.mode
            /\ b.errorCode = Undefined => behavior'.errorCode = behavior.errorCode
            /\ b.errorMessage = Undefined => behavior'.errorMessage = behavior.errorMessage
            /\ b.delayMs = Undefined => behavior'.delayMs = behavior.delayMs
            /\ reply'.body = behavior'
     /\ GetBehavior => (reply' = [status |-> 200, body |-> behavior] /\ behavior' = behavior)]_vars

\* every field differs from its default, and a set of delayMs alone can be taken
\* from here that keeps mode, errorCode and errorMessage
C12_Witness ==
  /\ behavior = [mode |-> "timeout", errorCode |-> 418, errorMessage |-> "Custom", delayMs |-> MaxDelay]
  /\ reply = [status |-> 200, body |-> behavior]
  /\ ENABLED (/\ SetBehavior(Payload(Undefined, Undefined, Undefined, Num(1)))
              /\ behavior' = [behavior EXCEPT !.delayMs = 1])

\* C13: delayMs is a number >= 0 in every reachable state; a set with a negative
\* delayMs (-5) stores 0, a set with a delayMs that is not a number ('abc')
\* stores 0, and applying the same set again leaves the stored delayMs as it is.
C13_DelayNeverNegative ==
  /\ [](behavior.delayMs \in Nat)
  /\ [][\A b \in AllPayloads :
          (SetBehavior(b) /\ reply'.status = 200) =>
            /\ (b.delayMs.t = "number" /\ b.delayMs.v < 0) => behavior'.delayMs = 0
            /\ b.delayMs = Str("abc") => behavior'.delayMs = 0
            /\ ApplyBehavior(behavior', b).delayMs = behavior'.delayMs]_vars

\* a positive delay is stored and a set of -5 from here brings it to 0
C13_Witness ==
  /\ behavior.delayMs = MaxDelay
  /\ ENABLED (/\ SetBehavior(Payload(Undefined, Undefined, Undefined, Num(-5)))
              /\ behavior'.delayMs = 0
              /\ reply'.status = 200)

\* C14 (as stated): a set call with errorCode stores the numeric value whenever
\* the value is a number or parses as one, stores 500 when it does not, and no
\* set call fails on a non-numeric errorCode or delayMs.
C14_ParseableCodeStored ==
  /\ [](\A b \in AllPayloads : ENABLED SetBehavior(b))
  /\ [][\A b \in AllPayloads :
          (SetBehavior(b) /\ reply'.status = 200) =>
            /\ b.errorCode.t = "number" => behavior'.errorCode = b.errorCode.v
            /\ b.errorCode = Str("503") => behavior'.errorCode = 503
            /\ b.errorCode = Str("abc") => behavior'.errorCode = 500]_vars

\* C14 (amended): a set call with errorCode stores the numeric value when it is
\* a number other than zero or parses as one, stores 500 when it is zero or not
\* a number, and every set call is answered, 400 only for a rejected mode.
C14_NonZeroCodeStored ==
  /\ [](\A b \in AllPayloads : ENABLED SetBehavior(b))
  /\ [][\A b \in AllPayloads :
          SetBehavior(b) =>
            /\ reply'.status \in {200, 400}
            /\ reply'.status = 400 => (b.mode.t = "string" /\ b.mode.v \notin Modes)
            /\ reply'.status = 200 =>
                 /\ (b.errorCode.t = "number" /\ b.errorCode.v # 0) =>
                      behavior'.errorCode = b.errorCode.v
                 /\ b.errorCode = Str("503") => behavior'.errorCode = 503
                 /\ b.errorCode \in {Num(0), Str("abc")} => behavior'.errorCode = 500]_vars

\* errorCode 418 is stored, and from here both errorCode 0 and errorCode 'abc'
\* are answered 200 and store 500
C14_Witness ==
  /\ behavior.errorCode = 418
  /\ \A c \in {Num(0), Str("abc")} :
       ENABLED (/\ SetBehavior(Payload(Undefined, c, Undefined, Str("abc")))
                /\ reply'.status = 200
                /\ behavior'.errorCode = 500)

\* C15: a clear step leaves the log empty and the Behavior as it was, and a list
\* step returns the log as it is, so a list that follows a clear returns the
\* empty sequence.
C15_ClearEmptiesLog ==
  [][/\ ClearInbox =>
          /\ receivedLog' = <<>>
          /\ behavior' = behavior
          /\ reply' = [status |-> 200, body |-> [ok |-> TRUE]]
     /\ GetInbox =>
          /\ reply' = [status |-> 200, body |-> [array |-> receivedLog]]
          /\ receivedLog' = receivedLog]_vars

\* an upload was recorded under a changed Behavior, the log was cleared and the
\* list that followed returned the empty sequence
C15_Witness ==
  /\ \E i \in DOMAIN uploads : uploads[i].entries # <<>>
  /\ receivedLog = <<>>
  /\ reply.status = 200
  /\ reply.body = [array |-> <<>>]
  /\ behavior.mode = "timeout"
  /\ behavior.delayMs = MaxDelay

\* C16: the Behavior changes only in a set or reset step, the log only in a
\* clear step or in the recording step of an upload; no step of an upload
\* changes the Behavior; get, list, routes, ping and health change neither.
C16_OnlyWritersWrite ==
  [][/\ behavior' # behavior => ((\E b \in ChaosPayloads : SetBehavior(b)) \/ ResetBehavior)
     /\ receivedLog' # receivedLog =>
          \/ ClearInbox
          \/ \E req \in ApiRequests : Upload(req, ApiUploads)
          \/ \E i \in 1..ApiUploads : Resume(i)
     /\ uploads' # uploads => behavior' = behavior
     /\ (GetBehavior \/ GetInbox \/ GetRoutes \/ Ping \/ Health) =>
          (behavior' = behavior /\ receivedLog' = receivedLog)]_vars

\* the routes were read while a non-default Behavior and a non-empty log stayed in place
C16_Witness ==
  /\ reply = [status |-> 200, body |-> [upload |-> [method |-> POST, paths |-> <<SlashUpload>>]]]
  /\ behavior.mode = "error"
  /\ behavior.errorCode = 503
  /\ receivedLog # <<>>

\* C17: ping and health can be taken in every reachable state, whatever the
\* mode, errorCode and delayMs; each is answered 200 in the same step, adds no
\* log entry and starts no wait.
C17_PingAndHealthAlwaysAnswer ==
  /\ [](ENABLED Ping /\ ENABLED Health)
  /\ [][/\ Ping =>
             /\ reply' = [status |-> 200, body |-> [status |-> "ok", message |-> "pong"]]
             /\ UNCHANGED <<behavior, receivedLog, uploads>>
        /\ Health =>
             /\ reply' = [status |-> 200, body |-> [status |-> "ok"]]
             /\ UNCHANGED <<behavior, receivedLog, uploads>>]_vars

\* ping was answered in timeout mode with the longest delay, while an upload is waiting
C17_Witness ==
  /\ reply = [status |-> 200, body |-> [status |-> "ok", message |-> "pong"]]
  /\ behavior.mode = "timeout"
  /\ behavior.delayMs = MaxDelay
  /\ \E i \in DOMAIN uploads : uploads[i].pc = "waiting"
  /\ receivedLog = <<>>

\* the Authorization header left out, sent empty, sent with a token, sent with another
Credentials == {Undefined, Str(""), Str("Basic dG9rZW46"), Str("Bearer wrong")}

\* upload u, as just handled under the current Behavior, got the responses and
\* the log entries (hasAuth aside) that the same request would have got with
\* any other Authorization header
SameWhateverCredential(u) ==
  \A a \in Credentials :
    LET alt == [u.req EXCEPT !.authorization = a]
        o == Branch(behavior, alt)
    IN /\ u.responses = o.sent
       /\ Len(u.entries) = Len(o.logs)
       /\ \A k \in DOMAIN u.entries :
            [u.entries[k] EXCEPT !.hasAuth = TRUE] =
              [LogEntry(behavior, u.id, alt, o.logs[k].responseStatus, o.logs[k].note)
                 EXCEPT !.hasAuth = TRUE]

\* C18 (as stated): an upload gets the response and the log entry it would get
\* under the same Behavior with any other Authorization header or none, hasAuth
\* aside, and hasAuth is true exactly when the request carried the header.
C18_HasAuthIffHeaderPresent ==
  [][\A i \in 1..ApiUploads :
       Finishes(i) =>
         /\ SameWhateverCredential(uploads'[i])
         /\ \A k \in DOMAIN uploads'[i].entries :
              uploads'[i].entries[k].hasAuth = (uploads'[i].req.authorization # Undefined)]_vars

\* C18 (amended): an upload gets the response and the log entry it would get
\* under the same Behavior with any other Authorization header or none, hasAuth
\* aside, and hasAuth is true exactly when the request carried the header with
\* a non-empty value.
C18_HasAuthIffHeaderNonEmpty ==
  [][\A i \in 1..ApiUploads :
       Finishes(i) =>
         /\ SameWhateverCredential(uploads'[i])
         /\ \A k \in DOMAIN uploads'[i].entries :
              uploads'[i].entries[k].hasAuth =
                (uploads'[i].req.authorization \notin {Undefined, Str("")})]_vars

\* an upload with an empty Authorization header was answered 503 and logged without hasAuth
C18_Witness ==
  \E i \in DOMAIN uploads :
    /\ uploads[i].req.authorization = Str("")
    /\ uploads[i].responses # <<>>
    /\ uploads[i].responses[1].status = 503
    /\ receivedLog # <<>>
    /\ receivedLog[1].id = uploads[i].id
    /\ ~receivedLog[1].hasAuth

\* C19: an entry that is in the log before and after a step is the same in
\* every field, chaosMode included, whatever the step does to the Behavior, and
\* an entry leaves the log only by a clear or by eviction from a full log.
C19_EntriesImmutable ==
  [][/\ \A k \in DOMAIN receivedLog : \A k2 \in DOMAIN receivedLog' :
          receivedLog'[k2].id = receivedLog[k].id => receivedLog'[k2] = receivedLog[k]
     /\ (~ClearInbox /\ Len(receivedLog) < MAX_LOG) =>
          \A k \in DOMAIN receivedLog : \E k2 \in DOMAIN receivedLog' :
            receivedLog'[k2] = receivedLog[k]]_vars

\* the log holds an entry recorded in timeout mode and a newer one recorded in
\* error mode, and the mode is back to normal
C19_Witness ==
  /\ Len(receivedLog) = 2
  /\ receivedLog[2].chaosMode = "timeout"
  /\ receivedLog[1].chaosMode = "error"
  /\ behavior.mode = "normal"

\* the notes an Error branch can write
ChaosNotes ==
  {"chaos: Bad Request", "chaos: Internal Server Error", "chaos: Service Unavailable",
   "chaos: Gateway Timeout", "chaos: Error 418", "chaos: Custom"}

\* C20: every log entry is consistent with its chaosMode: timeout exactly when
\* responseStatus is 0 and the note is 'timeout (no response sent)'; normal
\* exactly when the note is absent, and then responseStatus is 200; error
\* exactly when the note starts with 'chaos: ', and then responseStatus is not 0
\* and is the errorCode current when the entry was recorded.
C20_EntryConsistentWithMode ==
  /\ [](\A k \in DOMAIN receivedLog :
          LET e == receivedLog[k] IN
          /\ e.chaosMode \in Modes
          /\ e.chaosMode = "timeout" <=>
               (e.responseStatus = 0 /\ e.note = Str("timeout (no response sent)"))
          /\ e.chaosMode = "normal" <=> e.note = Null
          /\ e.chaosMode = "normal" => e.responseStatus = 200
          /\ e.chaosMode = "error" <=> (e.note.t = "string" /\ e.note.v \in ChaosNotes)
          /\ e.chaosMode = "error" => e.responseStatus # 0)
  /\ [][\A i \in 1..MaxUploads :
          Finishes(i) =>
            \A k \in DOMAIN uploads'[i].entries :
              uploads'[i].entries[k].chaosMode = "error" =>
                uploads'[i].entries[k].responseStatus = behavior.errorCode]_vars

\* two uploads that began in normal mode with a delay were recorded after the
\* mode had changed, one as timeout and one as error
C20_Witness ==
  /\ Len(uploads) = 2
  /\ \A i \in DOMAIN uploads : uploads[i].atStart.branch = "normal" /\ uploads[i].ms > 0
  /\ Len(receivedLog) = 2
  /\ {receivedLog[1].chaosMode, receivedLog[2].chaosMode} = {"timeout", "error"}
  /\ \E k \in 1..2 : receivedLog[k].responseStatus = 503

\* C21: an upload that waits was given the delayMs current when its handling
\* began; while it waits nothing but the passing of time changes what is left
\* of its wait, each millisecond taking one off every pending wait, whatever set
\* and reset do to delayMs; its handler resumes when its own wait has elapsed
\* in full, and can resume as soon as it has.
C21_WaitIsDelayAtStart ==
  /\ [](\A i \in DOMAIN uploads :
          uploads[i].pc = "waiting" =>
            /\ uploads[i].ms > 0
            /\ uploads[i].remaining \in 0..uploads[i].ms
            /\ (ENABLED Resume(i)) <=> uploads[i].remaining = 0)
  /\ [][/\ \A i \in DOMAIN uploads' \ DOMAIN uploads :
             /\ uploads'[i].ms = behavior.delayMs
             /\ uploads'[i].pc = "waiting" <=> behavior.delayMs > 0
             /\ uploads'[i].pc = "waiting" => uploads'[i].remaining = behavior.delayMs
        /\ \A i \in DOMAIN uploads :
             uploads[i].pc = "waiting" =>
               /\ uploads'[i].ms = uploads[i].ms
               /\ IF Tick /\ uploads[i].remaining > 0
                    THEN uploads'[i].remaining = uploads[i].remaining - 1
                    ELSE uploads'[i].remaining = uploads[i].remaining
               /\ uploads'[i].pc # "waiting" => uploads[i].remaining = 0]_vars

\* two uploads in flight: the first captured the longest delay and still has a
\* millisecond to wait, the second captured 1 ms and has resumed, and delayMs
\* has been set to 0 in the meantime
C21_Witness ==
  /\ Len(uploads) = 2
  /\ uploads[1].ms = MaxDelay
  /\ uploads[1].pc = "waiting"
  /\ uploads[1].remaining = MaxDelay - 1
  /\ uploads[2].ms = 1
  /\ uploads[2].pc # "waiting"
  /\ behavior.delayMs = 0

\* a Behavior that the payloads and the reset of TurnSpec can leave behind when
\* each is applied in full
Whole(beh) ==
  /\ beh.errorCode \in {500, 503}
  /\ beh.errorCode = 503 <=> beh.errorMessage = "Custom"
  /\ beh.mode = "error" => beh.errorCode = 503

\* C22: the Behavior is at every turn the result of sets and resets applied in
\* full, and so is every Behavior a get returns and every Behavior an upload
\* handler answers and records from; the log never holds more than 200 entries,
\* neither in the state nor in what a list returns, and a recording step takes
\* it from one such log to the next, insertion and eviction together.
C22_TurnsAreAtomic ==
  /\ [](/\ Whole(behavior)
        /\ Len(receivedLog) <= MAX_LOG
        /\ "mode" \in DOMAIN reply.body => Whole(reply.body)
        /\ "array" \in DOMAIN reply.body => Len(reply.body.array) <= MAX_LOG
        /\ \A i \in DOMAIN uploads :
             /\ \A k \in DOMAIN uploads[i].entries :
                  uploads[i].entries[k].chaosMode = "error" =>
                    /\ uploads[i].entries[k].responseStatus = 503
                    /\ uploads[i].entries[k].note = Str("chaos: Custom")
             /\ \A k \in DOMAIN uploads[i].responses :
                  uploads[i].responses[k].status # 200 =>
                    uploads[i].responses[k] = [status |-> 503, body |-> [error |-> "Custom"]])
  /\ [][/\ behavior' # behavior =>
             \/ behavior' = [mode |-> "normal", errorCode |-> 500, errorMessage |-> "", delayMs |-> 0]
             \/ behavior' = [behavior EXCEPT !.mode = "error", !.errorCode = 503,
                                             !.errorMessage = "Custom"]
             \/ behavior' = [behavior EXCEPT !.mode = "normal"]
             \/ \E d \in {0, 1} : behavior' = [behavior EXCEPT !.delayMs = d]
        /\ receivedLog' # receivedLog =>
             /\ Len(receivedLog') = Min(Len(receivedLog) + 1, MAX_LOG)
             /\ receivedLog'[1].id \notin {receivedLog[k].id : k \in DOMAIN receivedLog}
             /\ SubSeq(receivedLog', 2, Len(receivedLog')) =
                  SubSeq(receivedLog, 1, Len(receivedLog') - 1)]_vars

\* the log is full and has evicted its oldest entry for one recorded in error
\* mode with the code and the message of one set, and a list has returned it
C22_Witness ==
  /\ Len(receivedLog) = MAX_LOG
  /\ receivedLog[1].id = MAX_LOG + 1
  /\ receivedLog[MAX_LOG].id = 2
  /\ receivedLog[1].chaosMode = "error"
  /\ receivedLog[1].note = Str("chaos: Custom")
  /\ reply = [status |-> 200, body |-> [array |-> receivedLog]]

\* the state LogSpec is in after MAX_LOG - 1 uploads is the state TurnSpec starts in
NearlyFullReached ==
  /\ uploads = EarlierUploads
  /\ recorded = [i \in 1..(MAX_LOG - 1) |-> EarlierUploads[i].entries[1]]
  /\ receivedLog = [k \in 1..(MAX_LOG - 1) |-> EarlierUploads[MAX_LOG - k].entries[1]]
  /\ behavior = DEFAULT_BEHAVIOR
  /\ reply = [status |-> 0, body |-> Null]

\* the upload object of a config.json that has one
HasUpload == config.t = "json" /\ config.v.t = "object" /\ config.v.upload.t = "object"

\* a string without blanks, as a path or a method is normally written
Clean(x) == x.t = "text" /\ x.v # <<>> /\ \A k \in DOMAIN x.v : x.v[k] # " "

\* a path made to begin with '/'
Slashed(q) == IF q[1] = "/" THEN q ELSE <<"/">> \o q

\* the method names of MethodInputs that are HTTP verbs, in upper case
Verb(m) ==
  CASE m = Text(POST) -> POST
    [] m \in {Text(PUT), Text(<<"p", "u", "t">>)} -> PUT

\* every path of the route begins with '/', and there is at least one
PathsWellFormed ==
  /\ uploadRoute.paths # <<>>
  /\ \A k \in DOMAIN uploadRoute.paths : uploadRoute.paths[k][1] = "/"

MethodFor(m) ==
  CASE m \in {Undefined, Text(<<>>), Text(POST), Text(FETCH)} -> POST
    [] m \in {Text(PUT), Text(<<"p", "u", "t">>)} -> PUT
    [] m = Text(<<"u", "s", "e">>) -> <<"U", "S", "E">>

\* the paths the server ends up with, for each `path` of PathInputs
PathsFor(p) ==
  CASE p \in {Undefined, Text(<<>>), Text(<<" ">>), Arr(<<>>), Arr(<<Num(7), Text(<<" ">>)>>)} ->
         <<SlashUpload>>
    [] p \in {Text(SlashPdf), Text(<<"p", "d", "f">>), Text(<<" ", "/", "p", "d", "f", " ">>)} ->
         <<SlashPdf>>
    [] p = Num(7) -> <<(<<"/", "7">>)>>
    [] p = Arr(<<Text(SlashA), Text(<<"b">>)>>) -> <<SlashA, SlashB>>
    [] p = Arr(<<Text(<<" ", "b", " ">>), Null, Text(SlashA)>>) -> <<SlashB, SlashA>>

=============================================================================
